---- MODULE Spec2Model ----
(***************************************************************************)
(* Model of PGDM25_20252008_Devarshi_Assign1.py, a Streamlit script that   *)
(* loads PDF/CSV/URL documents, builds or reopens a Chroma index in        *)
(* rag_db, and answers questions with retrieval + one LLM call.            *)
(*                                                                         *)
(* Streamlit reruns the whole script on every interaction (a rendering     *)
(* pass).  pc is the position of the pass in the script.  Text is a        *)
(* sequence of tokens; one token of a document stands for chunk_overlap    *)
(* characters.                                                             *)
(***************************************************************************)
EXTENDS Integers, Sequences, FiniteSets, TLC

\* ------------------------------------------------------------------------
\* Configuration of the script
\* ------------------------------------------------------------------------
PDF_FILES == <<"pdf_c_3_merged.pdf">>
CSV_FILES == <<"customs_duty_table.csv">>
URLS == <<"india-briefing.com", "cleartax.in">>

chunk_size == 1000
chunk_overlap == 200
SearchK == 5

NO_DOCS == <<"No relevant documents found.">>
INSTRUCTIONS ==
  <<"Use ONLY the context to answer. Also provide sample calculations. Generate output in table.">>
BLANK_LINE == "\n\n"

\* ------------------------------------------------------------------------
\* Bounds of the model
\* ------------------------------------------------------------------------
MaxAsks == 2      \* answered questions followed per session
MaxBuilds == 2    \* build attempts followed per process

\* ------------------------------------------------------------------------
\* Sequence helpers
\* ------------------------------------------------------------------------
Min(a, b) == IF a < b THEN a ELSE b

Range(s) == {s[i] : i \in 1..Len(s)}

\* t occurs in s as a contiguous run of tokens
Contains(s, t) ==
  \E i \in 0..(Len(s) - Len(t)) : SubSeq(s, i + 1, i + Len(t)) = t

IsPrefix(p, s) == Len(p) <= Len(s) /\ SubSeq(s, 1, Len(p)) = p

\* ------------------------------------------------------------------------
\* What the loaders return for each source that loads
\* ------------------------------------------------------------------------
SourceText(src) ==
  CASE src = "pdf_c_3_merged.pdf" -> <<"p1", "p2", "p3", "p4", "p5", "p6">>
    [] src = "customs_duty_table.csv" -> <<"row1">>
    [] src = "india-briefing.com" -> <<"brief1", "brief2">>
    [] OTHER -> <<"clear1">>

LoaderDocs(src) == << [source |-> src, page_content |-> SourceText(src)] >>

FileStatus == {"missing", "ok", "unreadable"}
UrlStatus == {"ok", "fail"}

\* what the file system and the network answer during one ingestion
Environments ==
  { e \in [Range(PDF_FILES) \cup Range(CSV_FILES) \cup Range(URLS)
             -> FileStatus \cup UrlStatus] :
      /\ \A f \in Range(PDF_FILES) \cup Range(CSV_FILES) : e[f] \in FileStatus
      /\ \A u \in Range(URLS) : e[u] \in UrlStatus }

Warning(kind, src) == [kind |-> kind, source |-> src]

EmptyLoad == [raised |-> FALSE, docs |-> <<>>, warnings |-> <<>>, attempted |-> <<>>]

\* LoadFile with the loader guarded the way the URL loop is
LoadFileGuarded(f, env, kind, acc) ==
  IF env[f] = "ok"
  THEN [acc EXCEPT !.docs = @ \o LoaderDocs(f), !.attempted = Append(@, f)]
  ELSE [acc EXCEPT !.warnings = Append(@, Warning(kind, f))]

\* one iteration of a PDF or CSV loop: exists -> load (may raise), else warn
LoadFile(f, env, kind, acc) ==
  IF env[f] # "missing"
  THEN IF env[f] = "unreadable"
       THEN [acc EXCEPT !.raised = TRUE, !.attempted = Append(@, f)]
       ELSE [acc EXCEPT !.docs = @ \o LoaderDocs(f),
                        !.attempted = Append(@, f)]
  ELSE [acc EXCEPT !.warnings = Append(@, Warning(kind, f))]

RECURSIVE LoadFiles(_, _, _, _, _)
LoadFiles(files, i, env, kind, acc) ==
  IF acc.raised \/ i > Len(files)
  THEN acc
  ELSE LoadFiles(files, i + 1, env, kind, LoadFile(files[i], env, kind, acc))

\* LoadUrl without the try/except
LoadUrlUnguarded(u, env, acc) ==
  IF env[u] = "ok"
  THEN [acc EXCEPT !.docs = @ \o LoaderDocs(u), !.attempted = Append(@, u)]
  ELSE [acc EXCEPT !.raised = TRUE, !.attempted = Append(@, u)]

\* one iteration of the URL loop: try load, except warn
LoadUrl(u, env, acc) ==
  IF env[u] = "ok"
  THEN [acc EXCEPT !.docs = @ \o LoaderDocs(u), !.attempted = Append(@, u)]
  ELSE [acc EXCEPT !.warnings = Append(@, Warning("Failed to load URL", u)),
                   !.attempted = Append(@, u)]

RECURSIVE LoadUrls(_, _, _, _)
LoadUrls(urls, i, env, acc) ==
  IF acc.raised \/ i > Len(urls)
  THEN acc
  ELSE LoadUrls(urls, i + 1, env, LoadUrl(urls[i], env, acc))

load_all_documents(env) ==
  LET afterPdf == LoadFiles(PDF_FILES, 1, env, "PDF not found", EmptyLoad)
      afterCsv == LoadFiles(CSV_FILES, 1, env, "CSV not found", afterPdf)
  IN  LoadUrls(URLS, 1, env, afterCsv)

\* ------------------------------------------------------------------------
\* RecursiveCharacterTextSplitter(chunk_size, chunk_overlap)
\* ------------------------------------------------------------------------
WindowLen == chunk_size \div chunk_overlap
WindowStep == (chunk_size - chunk_overlap) \div chunk_overlap

RECURSIVE SplitText(_, _, _)
SplitText(src, text, start) ==
  IF start > Len(text)
  THEN <<>>
  ELSE LET end == Min(start + WindowLen - 1, Len(text))
           chunk == [source |-> src, page_content |-> SubSeq(text, start, end)]
       IN  IF end = Len(text)
           THEN <<chunk>>
           ELSE <<chunk>> \o SplitText(src, text, start + WindowStep)

RECURSIVE split_documents(_)
split_documents(docs) ==
  IF docs = <<>>
  THEN <<>>
  ELSE SplitText(Head(docs).source, Head(docs).page_content, 1)
         \o split_documents(Tail(docs))

\* ------------------------------------------------------------------------
\* Query text
\* ------------------------------------------------------------------------
Whitespace == {" ", "\t"}

Queries == { <<>>, <<" ">>, <<" ", "\t">>, <<"laptops">>, <<" ", "duty", " ">> }

\* the emptiness test applied to the raw input
stripNothing(s) == s

RECURSIVE lstrip(_)
lstrip(s) == IF s # <<>> /\ Head(s) \in Whitespace THEN lstrip(Tail(s)) ELSE s

RECURSIVE rstrip(_)
rstrip(s) ==
  IF s # <<>> /\ s[Len(s)] \in Whitespace
  THEN rstrip(SubSeq(s, 1, Len(s) - 1))
  ELSE s

strip(s) == rstrip(lstrip(s))

\* ------------------------------------------------------------------------
\* ask_llm
\* ------------------------------------------------------------------------
\* join that glues the texts together with no separator
RECURSIVE JoinGlued(_, _)
JoinGlued(texts, sep) ==
  IF texts = <<>> THEN <<>> ELSE texts[1] \o JoinGlued(Tail(texts), sep)

RECURSIVE Join(_, _)
Join(texts, sep) ==
  IF texts = <<>> THEN <<>>
  ELSE IF Len(texts) = 1 THEN texts[1]
  ELSE texts[1] \o <<sep>> \o Join(Tail(texts), sep)

PageContents(results) == [i \in 1..Len(results) |-> results[i].page_content]

Prompt(context, query) ==
  INSTRUCTIONS \o <<BLANK_LINE, "Context:", "\n">> \o context
    \o <<BLANK_LINE, "Question: ">> \o query

LLMResponses == { <<"duty is 10%">>, <<"| item | duty |">> }

\* ask_llm without the "if not results" return
ask_llm_NoEmptyCheck(query, retr, llm) ==
  IF retr.raised
  THEN [raised |-> TRUE, ret |-> <<>>, retrieverCalls |-> 1,
        queryEmbeddings |-> 1, llmCalls |-> 0, prompt |-> <<>>]
  ELSE LET context == Join(PageContents(retr.results), BLANK_LINE)
           prompt == Prompt(context, query)
       IN  IF llm.raised
           THEN [raised |-> TRUE, ret |-> <<>>, retrieverCalls |-> 1,
                 queryEmbeddings |-> 1, llmCalls |-> 1, prompt |-> prompt]
           ELSE [raised |-> FALSE, ret |-> llm.content, retrieverCalls |-> 1,
                 queryEmbeddings |-> 1, llmCalls |-> 1, prompt |-> prompt]

\* ask_llm with a failing LLM call caught and turned into an answer
ask_llm_CatchesFailure(query, retr, llm) ==
  IF retr.raised
  THEN [raised |-> TRUE, ret |-> <<>>, retrieverCalls |-> 1,
        queryEmbeddings |-> 1, llmCalls |-> 0, prompt |-> <<>>]
  ELSE IF retr.results = <<>>
  THEN [raised |-> FALSE, ret |-> NO_DOCS, retrieverCalls |-> 1,
        queryEmbeddings |-> 1, llmCalls |-> 0, prompt |-> <<>>]
  ELSE LET context == Join(PageContents(retr.results), BLANK_LINE)
           prompt == Prompt(context, query)
       IN  [raised |-> FALSE,
            ret |-> IF llm.raised THEN <<"LLM error">> ELSE llm.content,
            retrieverCalls |-> 1, queryEmbeddings |-> 1, llmCalls |-> 1,
            prompt |-> prompt]

\* retr: what retriever.invoke does, llm: what llm.invoke does.  The store
\* was given embedding_function=embeddings, so retriever.invoke embeds the
\* query with it before the similarity search: one embedding call per
\* retrieval, also on an index that was reopened.
ask_llm(query, retr, llm) ==
  IF retr.raised
  THEN [raised |-> TRUE, ret |-> <<>>, retrieverCalls |-> 1,
        queryEmbeddings |-> 1, llmCalls |-> 0, prompt |-> <<>>]
  ELSE IF retr.results = <<>>
  THEN [raised |-> FALSE, ret |-> NO_DOCS, retrieverCalls |-> 1,
        queryEmbeddings |-> 1, llmCalls |-> 0, prompt |-> <<>>]
  ELSE LET context == Join(PageContents(retr.results), BLANK_LINE)
           prompt == Prompt(context, query)
       IN  IF llm.raised
           THEN [raised |-> TRUE, ret |-> <<>>, retrieverCalls |-> 1,
                 queryEmbeddings |-> 1, llmCalls |-> 1, prompt |-> prompt]
           ELSE [raised |-> FALSE, ret |-> llm.content, retrieverCalls |-> 1,
                 queryEmbeddings |-> 1, llmCalls |-> 1, prompt |-> prompt]

\* ------------------------------------------------------------------------
\* State
\* ------------------------------------------------------------------------
VARIABLES
  pc,          \* position of the rendering pass: idle, load, vectorstore, ui
  user_query,  \* value of the text input in this pass
  clicked,     \* st.button("Ask") in this pass
  docCache,    \* st.cache_data entry of load_all_documents
  lastLoad,    \* the last execution of load_all_documents' body in this process
  disk,        \* the rag_db directory
  dbCached,    \* st.cache_resource entry of get_vectorstore
  dirAtStart,  \* whether rag_db existed when the process started
  build,       \* the build path of get_vectorstore in this process
  history,     \* st.session_state.history
  answered,    \* the questions ask_llm returned an answer for in this session
  hadFailure,  \* an Ask of this session ended in an exception
  pass         \* what the current rendering pass has done so far

vars == <<pc, user_query, clicked, docCache, lastLoad, disk, dbCached,
          dirAtStart, build, history, answered, hadFailure, pass>>

NoEnv == [s \in Range(PDF_FILES) \cup Range(CSV_FILES) \cup Range(URLS) |-> "ok"]

NotCached == [cached |-> FALSE, docs |-> <<>>]
NoLoad == [ran |-> FALSE, env |-> NoEnv, result |-> EmptyLoad]
NoDir == [exists |-> FALSE, stored |-> <<>>, intended |-> <<>>]
NoBuild == [calls |-> 0, splits |-> 0, opens |-> 0, completed |-> 0,
            requested |-> <<>>, embedded |-> <<>>]
NewPass == [loadRan |-> FALSE, outcome |-> "none", answer |-> <<>>,
            retrieverCalls |-> 0, llmCalls |-> 0, results |-> <<>>,
            prompt |-> <<>>, response |-> <<>>,
            retrieverRaised |-> FALSE, llmRaised |-> FALSE,
            queryEmbeddings |-> 0]

Init ==
  /\ pc = "idle"
  /\ user_query = <<>>
  /\ clicked = FALSE
  /\ docCache = NotCached
  /\ lastLoad = NoLoad
  /\ disk = NoDir
  /\ dbCached = FALSE
  /\ dirAtStart = FALSE
  /\ build = NoBuild
  /\ history = <<>>
  /\ answered = <<>>
  /\ hadFailure = FALSE
  /\ pass = NewPass

\* ------------------------------------------------------------------------
\* A user interaction starts a rendering pass
\* ------------------------------------------------------------------------
Rerun ==
  /\ pc = "idle"
  /\ \E q \in Queries, c \in BOOLEAN :
       /\ (c /\ strip(q) # <<>>) => Len(answered) < MaxAsks
       /\ user_query' = q
       /\ clicked' = c
  /\ pc' = "load"
  /\ pass' = NewPass
  /\ UNCHANGED <<docCache, lastLoad, disk, dbCached, dirAtStart, build,
                 history, answered, hadFailure>>

\* ------------------------------------------------------------------------
\* all_docs = load_all_documents()   under st.cache_data
\* ------------------------------------------------------------------------
LoadAllDocuments ==
  /\ pc = "load"
  /\ IF docCache.cached
     THEN /\ pc' = "vectorstore"
          /\ UNCHANGED <<docCache, lastLoad, pass>>
     ELSE \E env \in Environments :
            LET r == load_all_documents(env) IN
            /\ lastLoad' = [ran |-> TRUE, env |-> env, result |-> r]
            /\ IF r.raised
               THEN /\ pc' = "idle"
                    /\ pass' = [pass EXCEPT !.loadRan = TRUE,
                                            !.outcome = "exception"]
                    /\ UNCHANGED docCache
               ELSE /\ pc' = "vectorstore"
                    /\ pass' = [pass EXCEPT !.loadRan = TRUE]
                    /\ docCache' = [cached |-> TRUE, docs |-> r.docs]
  /\ UNCHANGED <<user_query, clicked, disk, dbCached, dirAtStart, build,
                 history, answered, hadFailure>>

\* ------------------------------------------------------------------------
\* db = get_vectorstore()   under st.cache_resource
\* ------------------------------------------------------------------------
\* the existence test of rag_db answering no
os_path_exists_Never(d) == FALSE

os_path_exists(d) == d.exists

\* what a failing Chroma.from_documents may leave in rag_db: nothing, or a
\* directory holding the chunks embedded before the failure
FailedBuilds(chunks) ==
  { [exists |-> e, stored |-> SubSeq(chunks, 1, n), intended |-> chunks] :
      e \in BOOLEAN, n \in 0..(IF chunks = <<>> THEN 0 ELSE Len(chunks) - 1) }

GetVectorstore ==
  /\ pc = "vectorstore"
  /\ IF dbCached
     THEN /\ pc' = "ui"
          /\ UNCHANGED <<disk, dbCached, build, pass>>
     ELSE IF os_path_exists(disk)
     THEN /\ pc' = "ui"
          /\ dbCached' = TRUE
          /\ build' = [build EXCEPT !.opens = @ + 1, !.completed = @ + 1]
          /\ UNCHANGED <<disk, pass>>
     ELSE LET chunks == split_documents(docCache.docs) IN
          \/ /\ disk' = [exists |-> TRUE, stored |-> chunks, intended |-> chunks]
             /\ dbCached' = TRUE
             /\ build' = [build EXCEPT !.calls = @ + 1, !.splits = @ + 1,
                                       !.completed = @ + 1,
                                       !.requested = chunks,
                                       !.embedded = chunks]
             /\ pc' = "ui"
             /\ UNCHANGED pass
          \/ \E left \in FailedBuilds(chunks) :
               /\ left.exists \/ build.calls + 1 < MaxBuilds
               /\ disk' = IF left.exists THEN left ELSE NoDir
               /\ build' = [build EXCEPT !.calls = @ + 1, !.splits = @ + 1,
                                         !.requested = chunks,
                                         !.embedded = left.stored]
               /\ pass' = [pass EXCEPT !.outcome = "exception"]
               /\ pc' = "idle"
               /\ UNCHANGED dbCached
  /\ UNCHANGED <<user_query, clicked, docCache, lastLoad, dirAtStart,
                 history, answered, hadFailure>>

\* ------------------------------------------------------------------------
\* The Ask button and the history loop
\* ------------------------------------------------------------------------
Reverse(s) == [i \in 1..Len(s) |-> s[Len(s) + 1 - i]]

\* the similarity ranking of the stored chunks for a query is the index's
\* business: the model lets it rank them in stored order or in reverse
Rankings(stored) == { stored, Reverse(stored) }

TopK(ranked, k) == SubSeq(ranked, 1, Min(k, Len(ranked)))

\* retriever.invoke(query) with search_kwargs k: raises, or returns the k
\* best-ranked stored chunks
RetrieverOutcomes(stored) ==
  { [raised |-> TRUE, results |-> <<>>] } \cup
  { [raised |-> FALSE, results |-> TopK(r, SearchK)] : r \in Rankings(stored) }

LLMOutcomes ==
  { [raised |-> TRUE, content |-> <<>>] } \cup
  { [raised |-> FALSE, content |-> c] : c \in LLMResponses }

\* the handler's effect on st.session_state.history
HistoryAfterAsk(h, q, a) == h

AskButton ==
  /\ pc = "ui"
  /\ pc' = "idle"
  /\ IF ~clicked
     THEN UNCHANGED <<history, answered, hadFailure, pass>>
     ELSE IF strip(user_query) = <<>>
     THEN /\ pass' = [pass EXCEPT !.outcome = "warning"]
          /\ UNCHANGED <<history, answered, hadFailure>>
     ELSE \E retr \in RetrieverOutcomes(disk.stored), llm \in LLMOutcomes :
            LET r == ask_llm(user_query, retr, llm) IN
            /\ pass' = [pass EXCEPT
                          !.outcome = IF r.raised THEN "exception" ELSE "answered",
                          !.answer = r.ret,
                          !.retrieverCalls = r.retrieverCalls,
                          !.llmCalls = r.llmCalls,
                          !.results = retr.results,
                          !.prompt = r.prompt,
                          !.response = IF r.llmCalls > 0 THEN llm.content ELSE <<>>,
                          !.retrieverRaised = retr.raised,
                          !.queryEmbeddings = r.queryEmbeddings,
                          !.llmRaised = (r.llmCalls > 0 /\ llm.raised)]
            /\ IF r.raised
               THEN /\ hadFailure' = TRUE
                    /\ UNCHANGED <<history, answered>>
               ELSE /\ history' = HistoryAfterAsk(history, user_query, r.ret)
                    /\ answered' = Append(answered, user_query)
                    /\ UNCHANGED hadFailure
  /\ UNCHANGED <<user_query, clicked, docCache, lastLoad, disk, dbCached,
                 dirAtStart, build>>

\* ------------------------------------------------------------------------
\* The browser session ends and a new one begins; the process restarts
\* ------------------------------------------------------------------------
NewSession ==
  /\ pc = "idle"
  /\ history' = <<>>
  /\ answered' = <<>>
  /\ hadFailure' = FALSE
  /\ user_query' = <<>>
  /\ clicked' = FALSE
  /\ pass' = NewPass
  /\ UNCHANGED <<pc, docCache, lastLoad, disk, dbCached, dirAtStart, build>>

Restart ==
  /\ pc = "idle"
  /\ docCache' = NotCached
  /\ lastLoad' = NoLoad
  /\ dbCached' = FALSE
  /\ dirAtStart' = disk.exists
  /\ build' = NoBuild
  /\ history' = <<>>
  /\ answered' = <<>>
  /\ hadFailure' = FALSE
  /\ user_query' = <<>>
  /\ clicked' = FALSE
  /\ pass' = NewPass
  /\ UNCHANGED <<pc, disk>>

Next ==
  \/ Rerun
  \/ LoadAllDocuments
  \/ GetVectorstore
  \/ AskButton
  \/ NewSession
  \/ Restart

Spec == Init /\ [][Next]_vars

\* ------------------------------------------------------------------------
\* Properties
\* ------------------------------------------------------------------------
Files == Range(PDF_FILES) \cup Range(CSV_FILES)

IsBlank(q) == \A i \in 1..Len(q) : q[i] \in Whitespace

\* C1: after N queries that ask_llm answered in a session, history holds
\* exactly N (question, answer) pairs in submission order: as many entries
\* as answered questions, the i-th entry carrying the i-th question, and the
\* entry of the query just answered carrying the answer shown.
C1_HistoryHoldsAnsweredQueries ==
  /\ Len(history) = Len(answered)
  /\ \A i \in 1..Len(history) : history[i][1] = answered[i]
  /\ (pc = "idle" /\ pass.outcome = "answered")
       => history[Len(history)] = <<user_query, pass.answer>>

\* C2: an Ask click with an empty or whitespace-only query leaves history
\* alone, calls neither the retriever nor the LLM, and only shows the warning.
C2_BlankQueryTouchesNothing ==
  [][ (pc = "ui" /\ clicked /\ IsBlank(user_query))
        => /\ history' = history
           /\ answered' = answered
           /\ pass'.retrieverCalls = 0
           /\ pass'.llmCalls = 0
           /\ pass'.outcome = "warning"
           /\ UNCHANGED <<docCache, disk, dbCached, build>> ]_vars

C2_Witness ==
  /\ pc = "idle"
  /\ clicked
  /\ user_query = <<" ", "\t">>
  /\ pass.outcome = "warning"
  /\ dbCached

\* C3: when the retrieval of an Ask returns zero chunks, ask_llm returns the
\* fixed "no relevant documents" text and the LLM is not called.
C3_NoChunksNoLLMCall ==
  (pass.retrieverCalls = 1 /\ ~pass.retrieverRaised /\ pass.results = <<>>)
    => /\ pass.outcome = "answered"
       /\ pass.answer = NO_DOCS
       /\ pass.llmCalls = 0
       /\ pass.prompt = <<>>

C3_Witness ==
  /\ pc = "idle"
  /\ pass.retrieverCalls = 1
  /\ ~pass.retrieverRaised
  /\ pass.results = <<>>
  /\ pass.answer = NO_DOCS

\* ctx is the texts in order, with one blank-line separator between neighbours
RECURSIVE IsBlankLineSeparated(_, _)
IsBlankLineSeparated(ctx, texts) ==
  IF Len(texts) = 1
  THEN ctx = texts[1]
  ELSE /\ IsPrefix(texts[1] \o <<BLANK_LINE>>, ctx)
       /\ IsBlankLineSeparated(SubSeq(ctx, Len(texts[1]) + 2, Len(ctx)),
                               Tail(texts))

\* C4: when the retrieval of an Ask returns chunks, exactly one LLM call is
\* made, its prompt contains the literal query and the retrieved chunk texts
\* in retrieval order separated by blank lines, and the answer is the
\* response of that call unchanged.
C4_OnePromptWithQueryAndContext ==
  (pass.retrieverCalls = 1 /\ pass.results # <<>>)
    => /\ pass.llmCalls = 1
       /\ Contains(pass.prompt, user_query)
       /\ \E i \in 1..Len(pass.prompt), j \in 1..Len(pass.prompt) :
            IsBlankLineSeparated(SubSeq(pass.prompt, i, j),
                                 PageContents(pass.results))
       /\ ~pass.llmRaised
            => (pass.outcome = "answered" /\ pass.answer = pass.response)

C4_Witness ==
  /\ pc = "idle"
  /\ pass.outcome = "answered"
  /\ Len(pass.results) >= 2
  /\ pass.llmCalls = 1
  /\ user_query = <<" ", "duty", " ">>
  /\ pass.answer \in LLMResponses

\* C5 as stated: in a process that found rag_db when it started, the
\* splitter is never run and no embedding call is made, whatever queries it
\* serves.
C5_ReopenMakesNoEmbeddingCall ==
  dirAtStart
    => /\ build.splits = 0
       /\ build.calls = 0
       /\ build.embedded = <<>>
       /\ pass.queryEmbeddings = 0

\* C5 amended: in a process that found rag_db when it started, the splitter
\* and the embedding of chunks are never run, whatever queries it serves;
\* the embedding calls of such a process are the one each retrieval makes
\* for the text of its query.
C5_ReopenNeverSplitsOrEmbedsChunks ==
  dirAtStart
    => /\ build.splits = 0
       /\ build.calls = 0
       /\ build.embedded = <<>>
       /\ pass.queryEmbeddings = pass.retrieverCalls

C5_Witness ==
  /\ dirAtStart
  /\ dbCached
  /\ build.opens = 1
  /\ pc = "idle"
  /\ pass.outcome = "answered"

\* C6: in a process that found no rag_db when it started, exactly one build
\* call happens over the process lifetime, it embeds exactly the chunks of
\* the loaded documents, rag_db exists after it, and the index is built or
\* opened at most once.
C6_ExactlyOneCompleteBuild ==
  ~dirAtStart
    => /\ build.calls <= 1
       /\ build.completed <= 1
       /\ dbCached
            => /\ build.calls = 1
               /\ build.opens = 0
               /\ build.embedded = split_documents(docCache.docs)
               /\ disk.exists
               /\ disk.stored = split_documents(docCache.docs)

\* the warnings and documents an ingestion owes to an environment
MissingWarnings(files, kind, env) ==
  LET missing == SelectSeq(files, LAMBDA f : env[f] = "missing")
  IN  [i \in 1..Len(missing) |-> Warning(kind, missing[i])]

FailedUrlWarnings(env) ==
  LET failed == SelectSeq(URLS, LAMBDA u : env[u] = "fail")
  IN  [i \in 1..Len(failed) |-> Warning("Failed to load URL", failed[i])]

RECURSIVE DocsOfAll(_)
DocsOfAll(srcs) ==
  IF srcs = <<>> THEN <<>> ELSE LoaderDocs(Head(srcs)) \o DocsOfAll(Tail(srcs))

AvailableSources(env) ==
  SelectSeq(PDF_FILES \o CSV_FILES \o URLS, LAMBDA x : env[x] = "ok")

\* C7: whichever PDF/CSV paths are missing and whichever URLs fail, the
\* ingestion completes without raising, gives exactly one warning per
\* missing path and per failed URL, and loads every remaining source.
C7_MissingAndFailedSourcesAreSkipped ==
  (lastLoad.ran /\ \A f \in Files : lastLoad.env[f] # "unreadable")
    => /\ ~lastLoad.result.raised
       /\ lastLoad.result.warnings =
            MissingWarnings(PDF_FILES, "PDF not found", lastLoad.env)
              \o MissingWarnings(CSV_FILES, "CSV not found", lastLoad.env)
              \o FailedUrlWarnings(lastLoad.env)
       /\ lastLoad.result.docs = DocsOfAll(AvailableSources(lastLoad.env))
       /\ docCache = [cached |-> TRUE, docs |-> lastLoad.result.docs]

C7_Witness ==
  /\ lastLoad.ran
  /\ lastLoad.env["pdf_c_3_merged.pdf"] = "missing"
  /\ lastLoad.env["customs_duty_table.csv"] = "ok"
  /\ lastLoad.env["india-briefing.com"] = "fail"
  /\ lastLoad.env["cleartax.in"] = "ok"
  /\ Len(lastLoad.result.warnings) = 2
  /\ Len(docCache.docs) = 2

\* C8: a retrieval or LLM call that fails during an Ask is made once and
\* not caught: the pass ends in an exception, history is left alone, the
\* caches and the index are untouched and the front end is idle again; a
\* later query of the same session is answered as usual.
C8_FailedAskAbortsOnlyThatPass ==
  /\ [][ (pc = "ui" /\ (pass'.retrieverRaised \/ pass'.llmRaised))
           => /\ pass'.outcome = "exception"
              /\ pass'.retrieverCalls = 1
              /\ pass'.llmCalls = (IF pass'.llmRaised THEN 1 ELSE 0)
              /\ history' = history
              /\ answered' = answered
              /\ hadFailure'
              /\ pc' = "idle"
              /\ UNCHANGED <<docCache, disk, dbCached, build>> ]_vars
  /\ [][ (hadFailure /\ pc = "ui" /\ clicked /\ ~IsBlank(user_query)
            /\ ~pass'.retrieverRaised /\ ~pass'.llmRaised)
           => /\ pass'.outcome = "answered"
              /\ answered' = Append(answered, user_query) ]_vars

C8_Witness ==
  /\ hadFailure
  /\ pc = "idle"
  /\ pass.outcome = "answered"
  /\ pass.llmCalls = 1
  /\ answered # <<>>

\* C9: whenever a process has taken the reopen path, rag_db holds every
\* chunk of the build that wrote it.
C9_ReopenedIndexIsComplete ==
  build.opens > 0 => disk.stored = disk.intended

\* the first PDF or CSV file of the configuration that is there but unreadable
FirstUnreadable(env) ==
  LET files == PDF_FILES \o CSV_FILES
      bad == { i \in 1..Len(files) : env[files[i]] = "unreadable" }
  IN  files[CHOOSE i \in bad : \A j \in bad : i <= j]

\* C10: only URL loads are guarded.  When a PDF or CSV file exists and its
\* loader raises, load_all_documents raises: the documents loaded so far are
\* not returned, no later source is attempted, nothing is cached, and the
\* next rendering pass runs the ingestion again.  A failing URL never raises.
C10_FileLoaderFailurePropagates ==
  /\ [](lastLoad.ran =>
          /\ lastLoad.result.raised
               <=> (\E f \in Files : lastLoad.env[f] = "unreadable")
          /\ lastLoad.result.raised
               => /\ ~docCache.cached
                  /\ docCache.docs = <<>>
                  /\ pc = "idle" => pass.outcome \in {"exception", "none"}
                  /\ lastLoad.result.attempted # <<>>
                  /\ lastLoad.result.attempted[Len(lastLoad.result.attempted)]
                       = FirstUnreadable(lastLoad.env)
                  /\ \A u \in Range(URLS) :
                       u \notin Range(lastLoad.result.attempted))
  /\ [][ (pc = "load" /\ lastLoad.ran /\ lastLoad.result.raised)
           => pass'.loadRan ]_vars

C10_Witness ==
  /\ lastLoad.ran
  /\ lastLoad.env["pdf_c_3_merged.pdf"] = "ok"
  /\ lastLoad.env["customs_duty_table.csv"] = "unreadable"
  /\ lastLoad.result.raised
  /\ lastLoad.result.docs # <<>>
  /\ ~docCache.cached
  /\ pc = "idle"
  /\ pass.loadRan

====
